---- MODULE Spec2Model ----
(***************************************************************************)
(* The SafetyRules engine of consensus/safety-rules/src/safety_rules.rs.   *)
(*                                                                         *)
(* State: the persistent safety storage (safety_data, waypoint) and the    *)
(* in-memory fields of SafetyRules (validator_signer, epoch_state, the     *)
(* construction flags).  Each public operation of TSafetyRules is one      *)
(* action that runs the whole guarded_* handler.  Everything the handler   *)
(* gets from outside this file (signature and proof verification, storage  *)
(* reads and writes, signing through a storage handle) is an input of the  *)
(* action: `fail` names the first such step that fails, "none" if all of   *)
(* them succeed.  The host serializes the requests (one call at a time):   *)
(* a call starts when the result of the previous one has been taken.       *)
(***************************************************************************)
EXTENDS Integers, FiniteSets, TLC

\* ------------------------------------------------------------------ bounds
\* Round is u64; MaxRound stands for u64::MAX (the largest representable round).
MaxRound == 2
\* Epochs of proposals, timeouts and epoch-change proofs: 1..MaxEpoch.
MaxEpoch == 2
Rounds == 0..MaxRound
Epochs == 1..MaxEpoch
\* Block ids (hashes) of proposed blocks.
BlockIds == {"A", "B"}
\* Consensus public keys a validator set may hold for this author.
Keys == {"k1", "k2"}

\* Option<T> is a set with at most one element.
None == {}
Some(x) == {x}
Unwrap(o) == CHOOSE x \in o : TRUE

VARIABLES
    safety_data,            \* persistent_storage: the SafetyData record
    waypoint,               \* persistent_storage: version of the stored waypoint
    validator_signer,       \* Option: the public key of the installed signer
    epoch_state,            \* Option: [epoch, key], key = the verifier's key for the author
    export_consensus_key,   \* construction flag
    ret,                    \* the last operation and what it returned
    observed                \* votes a client has kept from those returned to it

vars == <<safety_data, waypoint, validator_signer, epoch_state,
          export_consensus_key, ret, observed>>

\* ------------------------------------------------------------ data model
SafetyDataNew(epoch, last_voted_round, preferred_round, one_chain_round, last_vote) ==
    [epoch |-> epoch,
     last_voted_round |-> last_voted_round,
     preferred_round |-> preferred_round,
     one_chain_round |-> one_chain_round,
     last_vote |-> last_vote]

\* BlockInfo, reduced to what the rules read: its round, and whether it is
\* BlockInfo::empty().
BlockInfoEmpty == [empty |-> TRUE, round |-> 0]
BlockInfoOf(round) == [empty |-> FALSE, round |-> round]

\* The epoch of a block or timeout is only compared with the stored epoch:
\* the message is of the stored epoch ("same") or of another one ("other").
MessageEpochs == {"same", "other"}
MessageEpoch(m, sd) ==
    IF m.epoch = "same" THEN sd.epoch ELSE (sd.epoch % MaxEpoch) + 1

\* A proposed block B2 with its quorum certificate: certified_round is
\* round(B1), parent_round is round(B0).
Proposals ==
    [epoch : MessageEpochs, round : Rounds, id : BlockIds,
     certified_round : Rounds, parent_round : Rounds]

\* Vote::new_with_signature(vote_data, author, ledger_info, signature):
\* vote_data names the proposed block (epoch, round, id) and ledger_info
\* carries commit_info.  The signature is a function of the ledger info and
\* adds nothing that tells two votes apart.
VoteNew(proposal, commit_info) ==
    [epoch |-> MessageEpoch(proposal, safety_data), round |-> proposal.round,
     id |-> proposal.id, commit_info |-> commit_info]

\* What an operation returned: its status ("Ok" or the Error variant) and,
\* for construct_and_sign_vote, the Vote.
Result(op, status, vote) == [op |-> op, status |-> status, vote |-> vote]
\* No result is waiting to be taken.
NoCall == Result("none", "Ok", None)

\* ------------------------------------------------------- round arithmetic
\* next_round with a wrapping addition in place of the checked one.
next_round_wrapping(round) ==
    [status |-> "Ok", round |-> (round + 1) % (MaxRound + 1)]

\* u64::checked_add(round, 1).ok_or(Error::IncorrectRound(round))
next_round(round) ==
    IF round = MaxRound
    THEN [status |-> "IncorrectRound", round |-> round]
    ELSE [status |-> "Ok", round |-> round + 1]

\* ----------------------------------------------------------- voting rules
\* observe_qc that records the parent round and not the certified round.
observe_qc_parent_only(qc, sd) ==
    LET sd2 == IF qc.parent_round > sd.preferred_round
               THEN [sd EXCEPT !.preferred_round = qc.parent_round]
               ELSE sd
    IN  [updated |-> sd2 # sd, safety_data |-> sd2]

\* observe_qc: raises one_chain_round / preferred_round of the caller's copy.
observe_qc(qc, sd) ==
    LET one_chain == qc.certified_round
        two_chain == qc.parent_round
        sd1 == IF one_chain > sd.one_chain_round
               THEN [sd EXCEPT !.one_chain_round = one_chain]
               ELSE sd
        sd2 == IF two_chain > sd1.preferred_round
               THEN [sd1 EXCEPT !.preferred_round = two_chain]
               ELSE sd1
    IN  [updated |-> sd2 # sd, safety_data |-> sd2]

\* construct_ledger_info committing on the last two rounds alone.
construct_ledger_info_two_chain(proposed_block) ==
    LET n1 == next_round(proposed_block.certified_round)
    IN  [status |-> n1.status,
         round |-> n1.round,
         commit_info |-> IF n1.status = "Ok" /\ n1.round = proposed_block.round
                         THEN BlockInfoOf(proposed_block.parent_round)
                         ELSE BlockInfoEmpty]

\* The 3-chain commit rule on B0 <- B1 <- B2, with `&&` short-circuiting and
\* `?` returning the first overflow.
construct_ledger_info(proposed_block) ==
    LET block2 == proposed_block.round
        block1 == proposed_block.certified_round
        block0 == proposed_block.parent_round
        n0 == next_round(block0)
        n1 == next_round(block1)
        Built(commit) ==
            [status |-> "Ok", round |-> 0,
             commit_info |-> IF commit THEN BlockInfoOf(block0) ELSE BlockInfoEmpty]
        Failed(n) ==
            [status |-> n.status, round |-> n.round, commit_info |-> BlockInfoEmpty]
    IN  IF n0.status # "Ok" THEN Failed(n0)
        ELSE IF n0.round # block1 THEN Built(FALSE)
        ELSE IF n1.status # "Ok" THEN Failed(n1)
        ELSE Built(n1.round = block2)

\* The second voting rule without its check.
verify_and_update_preferred_round_unchecked(quorum_cert, sd) ==
    [status |-> "Ok", safety_data |-> observe_qc(quorum_cert, sd).safety_data]

\* Second voting rule.
verify_and_update_preferred_round(quorum_cert, sd) ==
    IF quorum_cert.certified_round < sd.preferred_round
    THEN [status |-> "IncorrectPreferredRound", safety_data |-> sd]
    ELSE [status |-> "Ok", safety_data |-> observe_qc(quorum_cert, sd).safety_data]

\* The first voting rule without its check.
verify_and_update_last_vote_round_unchecked(round, sd) ==
    [status |-> "Ok", safety_data |-> [sd EXCEPT !.last_voted_round = round]]

\* The first voting rule without its update.
verify_and_update_last_vote_round_stale(round, sd) ==
    IF round <= sd.last_voted_round
    THEN [status |-> "IncorrectLastVotedRound", safety_data |-> sd]
    ELSE [status |-> "Ok", safety_data |-> sd]

\* First voting rule.
verify_and_update_last_vote_round(round, sd) ==
    IF round <= sd.last_voted_round
    THEN [status |-> "IncorrectLastVotedRound", safety_data |-> sd]
    ELSE [status |-> "Ok", safety_data |-> [sd EXCEPT !.last_voted_round = round]]

verify_epoch(epoch, sd) ==
    IF epoch # sd.epoch THEN "IncorrectEpoch" ELSE "Ok"

\* self.signer() that never reports a missing signer.
signer_unchecked == "Ok"

\* self.signer(): the installed signer or NotInitialized.
signer == IF validator_signer = None THEN "NotInitialized" ELSE "Ok"

\* verify_qc: needs the epoch state; the signature check itself is external.
verify_qc(fail) ==
    IF epoch_state = None THEN "NotInitialized"
    ELSE IF fail = "quorum_cert" THEN "InvalidQuorumCertificate"
    ELSE "Ok"

\* self.sign(message): an exported key signs in memory; a handle signs
\* through the storage, which may fail.
sign(fail) ==
    IF signer # "Ok" THEN signer
    ELSE IF fail = "sign" /\ ~export_consensus_key THEN "SecureStorageError"
    ELSE "Ok"

\* The external steps of construct_and_sign_vote, in the order they run.
VoteFails ==
    {"none", "execution_signature_missing", "execution_signature", "safety_data",
     "quorum_cert", "block_signature", "well_formed", "extension",
     "safety_data_again", "sign", "set_safety_data"}

\* The failures that return before the handler reads the block's rounds and
\* id.
VoteFailsBeforeRounds ==
    {"execution_signature_missing", "execution_signature", "safety_data",
     "quorum_cert", "block_signature", "well_formed", "extension",
     "safety_data_again"}

\* The calls of construct_and_sign_vote whose failing step is one of `fails`.
\* A call that fails before the rounds and id are read has the same outcome
\* for every block of an epoch: one block per epoch stands for them.  The
\* block id shows only in the Vote returned: block "A" stands for the others
\* in the calls that fail.
VoteInputsOf(fails) ==
    [proposal : Proposals, fail : {"none"} \cap fails]
    \cup [proposal : [epoch : MessageEpochs, round : Rounds, id : {"A"},
                      certified_round : Rounds, parent_round : Rounds],
          fail : {"sign", "set_safety_data"} \cap fails]
    \cup [proposal : [epoch : MessageEpochs, round : {0}, id : {"A"},
                      certified_round : {0}, parent_round : {0}],
          fail : VoteFailsBeforeRounds \cap fails]

VoteInputs == VoteInputsOf(VoteFails)

\* verify_proposal.  The execution-signature check runs only when an
\* execution public key was loaded at construction, and the extension check
\* only without decoupled execution; a check that does not run is one that
\* does not fail.
verify_proposal(proposal, fail) ==
    IF fail = "execution_signature_missing" THEN "VoteProposalSignatureNotFound"
    ELSE IF fail = "execution_signature" THEN "InternalError"
    ELSE IF fail = "safety_data" THEN "SecureStorageError"
    ELSE IF verify_epoch(MessageEpoch(proposal, safety_data), safety_data) # "Ok"
         THEN verify_epoch(MessageEpoch(proposal, safety_data), safety_data)
    ELSE IF verify_qc(fail) # "Ok" THEN verify_qc(fail)
    ELSE IF fail = "block_signature" THEN "InvalidProposal"
    ELSE IF fail = "well_formed" THEN "InvalidProposal"
    ELSE IF fail = "extension" THEN "InvalidAccumulatorExtension"
    ELSE "Ok"

\* construct_and_sign_vote without the replay short-circuit.
replay_last_vote_never(round, sd) == None

\* The replay short-circuit of construct_and_sign_vote: the stored last_vote
\* if it is a vote for this round.
replay_last_vote(round, sd) ==
    IF sd.last_vote # None /\ Unwrap(sd.last_vote).round = round
    THEN sd.last_vote
    ELSE None

\* ------------------------------------------------------------- handlers
\* Each handler is a function of the current state and its inputs; it gives
\* the returned status (and value) and the state it leaves.

\* construct_and_sign_vote that stores the rounds and not the vote.
guarded_construct_and_sign_vote_forgetting(proposal, fail) ==
    LET Err(status) == [status |-> status, vote |-> None, safety_data |-> safety_data]
        vote_data == verify_proposal(proposal, fail)
        second == verify_and_update_preferred_round(proposal, safety_data)
        first == verify_and_update_last_vote_round(proposal.round, second.safety_data)
        ledger_info == construct_ledger_info(proposal)
        signature == sign(fail)
        vote == VoteNew(proposal, ledger_info.commit_info)
    IN  IF signer # "Ok" THEN Err(signer)
        ELSE IF vote_data # "Ok" THEN Err(vote_data)
        ELSE IF fail = "safety_data_again" THEN Err("SecureStorageError")
        ELSE IF replay_last_vote(proposal.round, safety_data) # None
             THEN [status |-> "Ok", safety_data |-> safety_data,
                   vote |-> replay_last_vote(proposal.round, safety_data)]
        ELSE IF second.status # "Ok" THEN Err(second.status)
        ELSE IF first.status # "Ok" THEN Err(first.status)
        ELSE IF ledger_info.status # "Ok" THEN Err(ledger_info.status)
        ELSE IF signature # "Ok" THEN Err(signature)
        ELSE IF fail = "set_safety_data" THEN Err("SecureStorageError")
        ELSE [status |-> "Ok", vote |-> Some(vote),
              safety_data |-> first.safety_data]

\* construct_and_sign_vote whose voting rules update the stored SafetyData
\* in place: a failure after the second rule leaves its update behind.
guarded_construct_and_sign_vote_in_place(proposal, fail) ==
    LET Err(status) == [status |-> status, vote |-> None, safety_data |-> safety_data]
        vote_data == verify_proposal(proposal, fail)
        second == verify_and_update_preferred_round(proposal, safety_data)
        first == verify_and_update_last_vote_round(proposal.round, second.safety_data)
        ErrAfterSecond(status) ==
            [status |-> status, vote |-> None, safety_data |-> second.safety_data]
        ledger_info == construct_ledger_info(proposal)
        signature == sign(fail)
        vote == VoteNew(proposal, ledger_info.commit_info)
    IN  IF signer # "Ok" THEN Err(signer)
        ELSE IF vote_data # "Ok" THEN Err(vote_data)
        ELSE IF fail = "safety_data_again" THEN Err("SecureStorageError")
        ELSE IF replay_last_vote(proposal.round, safety_data) # None
             THEN [status |-> "Ok", safety_data |-> safety_data,
                   vote |-> replay_last_vote(proposal.round, safety_data)]
        ELSE IF second.status # "Ok" THEN Err(second.status)
        ELSE IF first.status # "Ok" THEN ErrAfterSecond(first.status)
        ELSE IF ledger_info.status # "Ok" THEN ErrAfterSecond(ledger_info.status)
        ELSE IF signature # "Ok" THEN ErrAfterSecond(signature)
        ELSE IF fail = "set_safety_data" THEN Err("SecureStorageError")
        ELSE [status |-> "Ok", vote |-> Some(vote),
              safety_data |-> [first.safety_data EXCEPT !.last_vote = Some(vote)]]

guarded_construct_and_sign_vote(proposal, fail) ==
    LET Err(status) == [status |-> status, vote |-> None, safety_data |-> safety_data]
        vote_data == verify_proposal(proposal, fail)
        second == verify_and_update_preferred_round(proposal, safety_data)
        first == verify_and_update_last_vote_round(proposal.round, second.safety_data)
        ledger_info == construct_ledger_info(proposal)
        signature == sign(fail)
        vote == VoteNew(proposal, ledger_info.commit_info)
    IN  IF signer # "Ok" THEN Err(signer)
        ELSE IF vote_data # "Ok" THEN Err(vote_data)
        ELSE IF fail = "safety_data_again" THEN Err("SecureStorageError")
        ELSE IF replay_last_vote(proposal.round, safety_data) # None
             THEN [status |-> "Ok", safety_data |-> safety_data,
                   vote |-> replay_last_vote(proposal.round, safety_data)]
        ELSE IF second.status # "Ok" THEN Err(second.status)
        ELSE IF first.status # "Ok" THEN Err(first.status)
        ELSE IF ledger_info.status # "Ok" THEN Err(ledger_info.status)
        ELSE IF signature # "Ok" THEN Err(signature)
        ELSE IF fail = "set_safety_data" THEN Err("SecureStorageError")
        ELSE [status |-> "Ok", vote |-> Some(vote),
              safety_data |-> [first.safety_data EXCEPT !.last_vote = Some(vote)]]

Timeouts == [epoch : MessageEpochs, round : Rounds]
TimeoutFails == {"none", "safety_data", "set_safety_data", "sign"}
TimeoutInputsOf(fails) == [timeout : Timeouts, fail : fails]
TimeoutInputs == TimeoutInputsOf(TimeoutFails)

\* sign_timeout without the comparison with preferred_round.
guarded_sign_timeout_any_preferred(timeout, fail) ==
    LET Err(status) == [status |-> status, safety_data |-> safety_data]
        advance == timeout.round > safety_data.last_voted_round
    IN  IF signer # "Ok" THEN Err(signer)
        ELSE IF fail = "safety_data" THEN Err("SecureStorageError")
        ELSE IF verify_epoch(MessageEpoch(timeout, safety_data), safety_data) # "Ok"
             THEN Err("IncorrectEpoch")
        ELSE IF timeout.round < safety_data.last_voted_round
             THEN Err("IncorrectLastVotedRound")
        ELSE IF advance /\ fail = "set_safety_data" THEN Err("SecureStorageError")
        ELSE [status |-> sign(fail),
              safety_data |-> IF advance
                              THEN [safety_data EXCEPT !.last_voted_round = timeout.round]
                              ELSE safety_data]

\* sign_timeout that signs before it writes last_voted_round.
guarded_sign_timeout_signing_first(timeout, fail) ==
    LET Err(status) == [status |-> status, safety_data |-> safety_data]
        advance == timeout.round > safety_data.last_voted_round
        first == IF advance
                 THEN verify_and_update_last_vote_round(timeout.round, safety_data)
                 ELSE [status |-> "Ok", safety_data |-> safety_data]
    IN  IF signer # "Ok" THEN Err(signer)
        ELSE IF fail = "safety_data" THEN Err("SecureStorageError")
        ELSE IF verify_epoch(MessageEpoch(timeout, safety_data), safety_data) # "Ok"
             THEN Err(verify_epoch(MessageEpoch(timeout, safety_data), safety_data))
        ELSE IF timeout.round <= safety_data.preferred_round
             THEN Err("IncorrectPreferredRound")
        ELSE IF timeout.round < safety_data.last_voted_round
             THEN Err("IncorrectLastVotedRound")
        ELSE IF first.status # "Ok" THEN Err(first.status)
        ELSE IF sign(fail) # "Ok" THEN Err(sign(fail))
        ELSE IF advance /\ fail = "set_safety_data" THEN Err("SecureStorageError")
        ELSE [status |-> "Ok", safety_data |-> first.safety_data]

\* sign_timeout that signs without writing last_voted_round.
guarded_sign_timeout_not_writing(timeout, fail) ==
    LET Err(status) == [status |-> status, safety_data |-> safety_data]
    IN  IF signer # "Ok" THEN Err(signer)
        ELSE IF fail = "safety_data" THEN Err("SecureStorageError")
        ELSE IF verify_epoch(MessageEpoch(timeout, safety_data), safety_data) # "Ok"
             THEN Err(verify_epoch(MessageEpoch(timeout, safety_data), safety_data))
        ELSE IF timeout.round <= safety_data.preferred_round
             THEN Err("IncorrectPreferredRound")
        ELSE IF timeout.round < safety_data.last_voted_round
             THEN Err("IncorrectLastVotedRound")
        ELSE [status |-> sign(fail), safety_data |-> safety_data]

guarded_sign_timeout(timeout, fail) ==
    LET Err(status) == [status |-> status, safety_data |-> safety_data]
        advance == timeout.round > safety_data.last_voted_round
        first == IF advance
                 THEN verify_and_update_last_vote_round(timeout.round, safety_data)
                 ELSE [status |-> "Ok", safety_data |-> safety_data]
    IN  IF signer # "Ok" THEN Err(signer)
        ELSE IF fail = "safety_data" THEN Err("SecureStorageError")
        ELSE IF verify_epoch(MessageEpoch(timeout, safety_data), safety_data) # "Ok"
             THEN Err(verify_epoch(MessageEpoch(timeout, safety_data), safety_data))
        ELSE IF timeout.round <= safety_data.preferred_round
             THEN Err("IncorrectPreferredRound")
        ELSE IF timeout.round < safety_data.last_voted_round
             THEN Err("IncorrectLastVotedRound")
        ELSE IF first.status # "Ok" THEN Err(first.status)
        ELSE IF advance /\ fail = "set_safety_data" THEN Err("SecureStorageError")
        ELSE [status |-> sign(fail), safety_data |-> first.safety_data]

Authors == {"none", "self", "other"}
BlockDatas ==
    [epoch : MessageEpochs, round : Rounds, author : Authors,
     certified_round : Rounds, parent_round : Rounds]
ProposalFails == {"none", "safety_data", "quorum_cert", "sign"}
\* The calls of sign_proposal whose failing step is one of `fails`.  A wrong
\* author and a failing storage read return before the block's epoch and
\* rounds are read, a failing QC check before the QC's rounds are: one block
\* stands for the others there.
ProposalInputsOf(fails) ==
    [block_data : [epoch : {"same"}, round : {0}, author : {"none", "other"},
                   certified_round : {0}, parent_round : {0}],
     fail : {"none"} \cap fails]
    \cup [block_data : [epoch : {"same"}, round : {0}, author : {"self"},
                        certified_round : {0}, parent_round : {0}],
          fail : {"safety_data"} \cap fails]
    \cup [block_data : [epoch : MessageEpochs, round : Rounds, author : {"self"},
                        certified_round : {0}, parent_round : {0}],
          fail : {"quorum_cert"} \cap fails]
    \cup [block_data : [epoch : MessageEpochs, round : Rounds, author : {"self"},
                        certified_round : Rounds, parent_round : Rounds],
          fail : {"none", "sign"} \cap fails]

ProposalInputs == ProposalInputsOf(ProposalFails)

\* verify_author that takes any author the block names.
verify_author_any(author) ==
    IF signer # "Ok" THEN signer
    ELSE IF author = "none" THEN "InvalidProposal"
    ELSE "Ok"

verify_author(author) ==
    IF signer # "Ok" THEN signer
    ELSE IF author = "none" THEN "InvalidProposal"
    ELSE IF author # "self" THEN "InvalidProposal"
    ELSE "Ok"

\* sign_proposal that writes its copy of SafetyData back before it signs.
guarded_sign_proposal_persisting(block_data, fail) ==
    LET Err(status) == [status |-> status, safety_data |-> safety_data]
        second == verify_and_update_preferred_round(block_data, safety_data)
    IN  IF signer # "Ok" THEN Err(signer)
        ELSE IF verify_author(block_data.author) # "Ok"
             THEN Err(verify_author(block_data.author))
        ELSE IF fail = "safety_data" THEN Err("SecureStorageError")
        ELSE IF verify_epoch(MessageEpoch(block_data, safety_data), safety_data) # "Ok"
             THEN Err("IncorrectEpoch")
        ELSE IF block_data.round <= safety_data.last_voted_round
             THEN Err("InvalidProposal")
        ELSE IF verify_qc(fail) # "Ok" THEN Err(verify_qc(fail))
        ELSE IF second.status # "Ok" THEN Err(second.status)
        ELSE [status |-> sign(fail), safety_data |-> second.safety_data]

\* sign_proposal works on its own copy of SafetyData and never writes it back.
guarded_sign_proposal(block_data, fail) ==
    LET Err(status) == [status |-> status, safety_data |-> safety_data]
        second == verify_and_update_preferred_round(block_data, safety_data)
    IN  IF signer # "Ok" THEN Err(signer)
        ELSE IF verify_author(block_data.author) # "Ok"
             THEN Err(verify_author(block_data.author))
        ELSE IF fail = "safety_data" THEN Err("SecureStorageError")
        ELSE IF verify_epoch(MessageEpoch(block_data, safety_data), safety_data) # "Ok"
             THEN Err(verify_epoch(MessageEpoch(block_data, safety_data), safety_data))
        ELSE IF block_data.round <= safety_data.last_voted_round
             THEN Err("InvalidProposal")
        ELSE IF verify_qc(fail) # "Ok" THEN Err(verify_qc(fail))
        ELSE IF second.status # "Ok" THEN Err(second.status)
        ELSE Err(sign(fail))

CommitVoteFails == {"none", "ordered_only", "match_ordered_only", "signatures", "sign"}
CommitVoteInputsOf(fails) == [fail : fails]
CommitVoteInputs == CommitVoteInputsOf(CommitVoteFails)

guarded_sign_commit_vote(fail) ==
    LET Err(status) == [status |-> status, safety_data |-> safety_data]
    IN  IF signer # "Ok" THEN Err(signer)
        ELSE IF fail = "ordered_only" THEN Err("InvalidOrderedLedgerInfo")
        ELSE IF fail = "match_ordered_only" THEN Err("InconsistentExecutionResult")
        ELSE IF epoch_state = None THEN Err("NotInitialized")
        ELSE IF fail = "signatures" THEN Err("InvalidQuorumCertificate")
        ELSE Err(sign(fail))

\* An EpochChangeProof, reduced to what initialize takes from it: the epoch
\* of next_epoch_state and the key the new verifier holds for this author
\* ("absent": not in the validator set).
Proofs == [epoch : Epochs, key : Keys \cup {"absent"}]
\* Waypoint::new_epoch_boundary(ledger_info).version(): the ledger version at
\* which the proof's epoch begins.  Ledger versions grow with the epochs; the
\* boundary of epoch e is given version e - 1 (the genesis waypoint, which
\* opens epoch 1, has version 0).
new_epoch_boundary(proof) == proof.epoch - 1

\* An epoch change that resets the rounds and keeps the last vote.
start_new_epoch_keeping_vote(epoch, sd) ==
    IF sd.epoch < epoch THEN SafetyDataNew(epoch, 0, 0, 0, sd.last_vote) ELSE sd

\* An epoch change that also restarts the epoch it is already in.
start_new_epoch_again(epoch, sd) ==
    IF sd.epoch <= epoch THEN SafetyDataNew(epoch, 0, 0, 0, None) ELSE sd

\* The epoch comparison of initialize, when the stored epoch is not the
\* greater one: a greater epoch starts from fresh SafetyData, the same epoch
\* keeps what is stored.
start_new_epoch(epoch, sd) ==
    IF sd.epoch < epoch THEN SafetyDataNew(epoch, 0, 0, 0, None) ELSE sd

InitializeFails ==
    {"none", "waypoint", "proof", "next_epoch_state", "epoch_boundary",
     "set_waypoint", "safety_data", "set_safety_data", "author",
     "consensus_key_missing", "consensus_key", "sign"}

\* The calls of initialize.  The failures up to new_epoch_boundary return
\* before anything of the proof is read, those up to the write of SafetyData
\* before the verifier's key is: one proof stands for the others there.
InitializeInputs ==
    [proof : [epoch : {1}, key : {"absent"}],
     fail : {"waypoint", "proof", "next_epoch_state", "epoch_boundary"}]
    \cup [proof : [epoch : Epochs, key : {"absent"}],
          fail : {"set_waypoint", "safety_data", "set_safety_data"}]
    \cup [proof : Proofs,
          fail : {"none", "author", "consensus_key_missing", "consensus_key",
                  "sign"}]

\* initialize without the rejection of a proof older than the stored epoch.
guarded_initialize_accepting_stale(proof, fail) ==
    LET new_version == new_epoch_boundary(proof)
        new_waypoint ==
            IF new_version > waypoint THEN new_version ELSE waypoint
        current_epoch == safety_data.epoch
        new_safety_data == start_new_epoch(proof.epoch, safety_data)
        new_epoch_state == Some([epoch |-> proof.epoch, key |-> proof.key])
        Early(status) ==
            [status |-> status, waypoint |-> waypoint, safety_data |-> safety_data,
             epoch_state |-> epoch_state, validator_signer |-> validator_signer]
        Mid(status) ==
            [status |-> status, waypoint |-> new_waypoint, safety_data |-> safety_data,
             epoch_state |-> epoch_state, validator_signer |-> validator_signer]
        Late(status, new_signer) ==
            [status |-> status, waypoint |-> new_waypoint,
             safety_data |-> new_safety_data,
             epoch_state |-> new_epoch_state, validator_signer |-> new_signer]
    IN  IF fail = "waypoint" THEN Early("SecureStorageError")
        ELSE IF fail = "proof" THEN Early("InvalidEpochChangeProof")
        ELSE IF fail = "next_epoch_state" THEN Early("InvalidLedgerInfo")
        ELSE IF fail = "epoch_boundary" THEN Early("InternalError")
        ELSE IF new_version > waypoint /\ fail = "set_waypoint"
             THEN Early("SecureStorageError")
        ELSE IF fail = "safety_data" THEN Mid("SecureStorageError")
        ELSE IF current_epoch < proof.epoch /\ fail = "set_safety_data"
             THEN Mid("SecureStorageError")
        ELSE IF fail = "author" THEN Late("SecureStorageError", validator_signer)
        ELSE IF proof.key = "absent" THEN Late("ValidatorNotInSet", None)
        ELSE IF validator_signer = Some(proof.key) THEN Late("Ok", validator_signer)
        ELSE IF export_consensus_key
             THEN IF fail = "consensus_key_missing"
                  THEN Late("ValidatorKeyNotFound", None)
                  ELSE IF fail = "consensus_key"
                  THEN Late("SecureStorageError", None)
                  ELSE Late("Ok", Some(proof.key))
        ELSE IF fail = "sign" THEN Late("ValidatorKeyNotFound", None)
        ELSE Late("Ok", Some(proof.key))

\* initialize whose failed key reconciliation leaves the signer it found.
guarded_initialize_keeping_signer(proof, fail) ==
    LET new_version == new_epoch_boundary(proof)
        new_waypoint ==
            IF new_version > waypoint THEN new_version ELSE waypoint
        current_epoch == safety_data.epoch
        new_safety_data == start_new_epoch(proof.epoch, safety_data)
        new_epoch_state == Some([epoch |-> proof.epoch, key |-> proof.key])
        Early(status) ==
            [status |-> status, waypoint |-> waypoint, safety_data |-> safety_data,
             epoch_state |-> epoch_state, validator_signer |-> validator_signer]
        Mid(status) ==
            [status |-> status, waypoint |-> new_waypoint, safety_data |-> safety_data,
             epoch_state |-> epoch_state, validator_signer |-> validator_signer]
        Late(status, new_signer) ==
            [status |-> status, waypoint |-> new_waypoint,
             safety_data |-> new_safety_data,
             epoch_state |-> new_epoch_state, validator_signer |-> new_signer]
    IN  IF fail = "waypoint" THEN Early("SecureStorageError")
        ELSE IF fail = "proof" THEN Early("InvalidEpochChangeProof")
        ELSE IF fail = "next_epoch_state" THEN Early("InvalidLedgerInfo")
        ELSE IF fail = "epoch_boundary" THEN Early("InternalError")
        ELSE IF new_version > waypoint /\ fail = "set_waypoint"
             THEN Early("SecureStorageError")
        ELSE IF fail = "safety_data" THEN Mid("SecureStorageError")
        ELSE IF current_epoch > proof.epoch THEN Mid("NotInitialized")
        ELSE IF current_epoch < proof.epoch /\ fail = "set_safety_data"
             THEN Mid("SecureStorageError")
        ELSE IF fail = "author" THEN Late("SecureStorageError", validator_signer)
        ELSE IF proof.key = "absent"
             THEN Late("ValidatorNotInSet", validator_signer)
        ELSE IF validator_signer = Some(proof.key) THEN Late("Ok", validator_signer)
        ELSE IF export_consensus_key
             THEN IF fail = "consensus_key_missing"
                  THEN Late("ValidatorKeyNotFound", validator_signer)
                  ELSE IF fail = "consensus_key"
                  THEN Late("SecureStorageError", validator_signer)
                  ELSE Late("Ok", Some(proof.key))
        ELSE IF fail = "sign" THEN Late("ValidatorKeyNotFound", Some(proof.key))
        ELSE Late("Ok", Some(proof.key))

\* initialize that stores the waypoint of the proof whatever its version.
guarded_initialize_any_waypoint(proof, fail) ==
    LET new_version == new_epoch_boundary(proof)
        new_waypoint == new_version
        current_epoch == safety_data.epoch
        new_safety_data == start_new_epoch(proof.epoch, safety_data)
        new_epoch_state == Some([epoch |-> proof.epoch, key |-> proof.key])
        Early(status) ==
            [status |-> status, waypoint |-> waypoint, safety_data |-> safety_data,
             epoch_state |-> epoch_state, validator_signer |-> validator_signer]
        Mid(status) ==
            [status |-> status, waypoint |-> new_waypoint, safety_data |-> safety_data,
             epoch_state |-> epoch_state, validator_signer |-> validator_signer]
        Late(status, new_signer) ==
            [status |-> status, waypoint |-> new_waypoint,
             safety_data |-> new_safety_data,
             epoch_state |-> new_epoch_state, validator_signer |-> new_signer]
    IN  IF fail = "waypoint" THEN Early("SecureStorageError")
        ELSE IF fail = "proof" THEN Early("InvalidEpochChangeProof")
        ELSE IF fail = "next_epoch_state" THEN Early("InvalidLedgerInfo")
        ELSE IF fail = "epoch_boundary" THEN Early("InternalError")
        ELSE IF fail = "set_waypoint" THEN Early("SecureStorageError")
        ELSE IF fail = "safety_data" THEN Mid("SecureStorageError")
        ELSE IF current_epoch > proof.epoch THEN Mid("NotInitialized")
        ELSE IF current_epoch < proof.epoch /\ fail = "set_safety_data"
             THEN Mid("SecureStorageError")
        ELSE IF fail = "author" THEN Late("SecureStorageError", validator_signer)
        ELSE IF proof.key = "absent" THEN Late("ValidatorNotInSet", None)
        ELSE IF validator_signer = Some(proof.key) THEN Late("Ok", validator_signer)
        ELSE IF export_consensus_key
             THEN IF fail = "consensus_key_missing"
                  THEN Late("ValidatorKeyNotFound", None)
                  ELSE IF fail = "consensus_key"
                  THEN Late("SecureStorageError", None)
                  ELSE Late("Ok", Some(proof.key))
        ELSE IF fail = "sign" THEN Late("ValidatorKeyNotFound", None)
        ELSE Late("Ok", Some(proof.key))

\* initialize that installs the epoch state before it writes the SafetyData
\* of the new epoch: a failed write leaves the new epoch state installed.
guarded_initialize_installing_first(proof, fail) ==
    LET new_version == new_epoch_boundary(proof)
        new_waypoint ==
            IF new_version > waypoint THEN new_version ELSE waypoint
        current_epoch == safety_data.epoch
        new_safety_data == start_new_epoch(proof.epoch, safety_data)
        new_epoch_state == Some([epoch |-> proof.epoch, key |-> proof.key])
        Early(status) ==
            [status |-> status, waypoint |-> waypoint, safety_data |-> safety_data,
             epoch_state |-> epoch_state, validator_signer |-> validator_signer]
        Mid(status) ==
            [status |-> status, waypoint |-> new_waypoint, safety_data |-> safety_data,
             epoch_state |-> epoch_state, validator_signer |-> validator_signer]
        Installed(status) ==
            [status |-> status, waypoint |-> new_waypoint, safety_data |-> safety_data,
             epoch_state |-> new_epoch_state, validator_signer |-> validator_signer]
        Late(status, new_signer) ==
            [status |-> status, waypoint |-> new_waypoint,
             safety_data |-> new_safety_data,
             epoch_state |-> new_epoch_state, validator_signer |-> new_signer]
    IN  IF fail = "waypoint" THEN Early("SecureStorageError")
        ELSE IF fail = "proof" THEN Early("InvalidEpochChangeProof")
        ELSE IF fail = "next_epoch_state" THEN Early("InvalidLedgerInfo")
        ELSE IF fail = "epoch_boundary" THEN Early("InternalError")
        ELSE IF new_version > waypoint /\ fail = "set_waypoint"
             THEN Early("SecureStorageError")
        ELSE IF fail = "safety_data" THEN Mid("SecureStorageError")
        ELSE IF current_epoch > proof.epoch THEN Mid("NotInitialized")
        ELSE IF current_epoch < proof.epoch /\ fail = "set_safety_data"
             THEN Installed("SecureStorageError")
        ELSE IF fail = "author" THEN Late("SecureStorageError", validator_signer)
        ELSE IF proof.key = "absent" THEN Late("ValidatorNotInSet", None)
        ELSE IF validator_signer = Some(proof.key) THEN Late("Ok", validator_signer)
        ELSE IF export_consensus_key
             THEN IF fail = "consensus_key_missing"
                  THEN Late("ValidatorKeyNotFound", None)
                  ELSE IF fail = "consensus_key"
                  THEN Late("SecureStorageError", None)
                  ELSE Late("Ok", Some(proof.key))
        ELSE IF fail = "sign" THEN Late("ValidatorKeyNotFound", None)
        ELSE Late("Ok", Some(proof.key))

guarded_initialize(proof, fail) ==
    LET new_version == new_epoch_boundary(proof)
        new_waypoint ==
            IF new_version > waypoint THEN new_version ELSE waypoint
        current_epoch == safety_data.epoch
        new_safety_data == start_new_epoch(proof.epoch, safety_data)
        new_epoch_state == Some([epoch |-> proof.epoch, key |-> proof.key])
        \* returns before the waypoint is written
        Early(status) ==
            [status |-> status, waypoint |-> waypoint, safety_data |-> safety_data,
             epoch_state |-> epoch_state, validator_signer |-> validator_signer]
        \* returns after the waypoint step, before the epoch state is installed
        Mid(status) ==
            [status |-> status, waypoint |-> new_waypoint, safety_data |-> safety_data,
             epoch_state |-> epoch_state, validator_signer |-> validator_signer]
        \* returns after the epoch state is installed
        Late(status, new_signer) ==
            [status |-> status, waypoint |-> new_waypoint,
             safety_data |-> new_safety_data,
             epoch_state |-> new_epoch_state, validator_signer |-> new_signer]
    IN  IF fail = "waypoint" THEN Early("SecureStorageError")
        ELSE IF fail = "proof" THEN Early("InvalidEpochChangeProof")
        ELSE IF fail = "next_epoch_state" THEN Early("InvalidLedgerInfo")
        ELSE IF fail = "epoch_boundary" THEN Early("InternalError")
        ELSE IF new_version > waypoint /\ fail = "set_waypoint"
             THEN Early("SecureStorageError")
        ELSE IF fail = "safety_data" THEN Mid("SecureStorageError")
        ELSE IF current_epoch > proof.epoch THEN Mid("NotInitialized")
        ELSE IF current_epoch < proof.epoch /\ fail = "set_safety_data"
             THEN Mid("SecureStorageError")
        ELSE IF fail = "author" THEN Late("SecureStorageError", validator_signer)
        ELSE IF proof.key = "absent" THEN Late("ValidatorNotInSet", None)
        ELSE IF validator_signer = Some(proof.key) THEN Late("Ok", validator_signer)
        ELSE IF export_consensus_key
             THEN IF fail = "consensus_key_missing"
                  THEN Late("ValidatorKeyNotFound", None)
                  ELSE IF fail = "consensus_key"
                  THEN Late("SecureStorageError", None)
                  ELSE Late("Ok", Some(proof.key))
        ELSE IF fail = "sign" THEN Late("ValidatorKeyNotFound", None)
        ELSE Late("Ok", Some(proof.key))

ConsensusStateFails == {"none", "waypoint", "safety_data", "author"}

\* ConsensusState::new(safety_data, waypoint, in_validator_set)
ConsensusStateNew(sd, wp, in_validator_set) ==
    [safety_data |-> sd, waypoint |-> wp, in_validator_set |-> in_validator_set]

guarded_consensus_state(fail) ==
    IF fail # "none"
    THEN [status |-> "SecureStorageError", state |-> None]
    ELSE [status |-> "Ok",
          state |-> Some(ConsensusStateNew(safety_data, waypoint, signer = "Ok"))]

\* ---------------------------------------------------------- state machine
\* The inputs a call can tell apart in the current state.  A handler that
\* finds no signer returns before it reads its argument: one input stands for
\* all.  An exported key signs in memory: only a handle has a signing step in
\* the storage that can fail.
InputsNow(inputs, one, without_sign) ==
    IF signer # "Ok" THEN one
    ELSE IF export_consensus_key THEN without_sign
    ELSE inputs

VoteInputsOne == {CHOOSE i \in VoteInputs : i.fail = "none"}
VoteInputsExported == VoteInputsOf(VoteFails \ {"sign"})
ProposalInputsOne == {CHOOSE i \in ProposalInputs : i.fail = "none"}
ProposalInputsExported == ProposalInputsOf(ProposalFails \ {"sign"})
TimeoutInputsOne == {CHOOSE i \in TimeoutInputs : i.fail = "none"}
TimeoutInputsExported == TimeoutInputsOf(TimeoutFails \ {"sign"})
CommitVoteInputsOne == {CHOOSE i \in CommitVoteInputs : i.fail = "none"}
CommitVoteInputsExported == CommitVoteInputsOf(CommitVoteFails \ {"sign"})

\* The storage as PersistentSafetyStorage::initialize leaves it (epoch 1, all
\* rounds 0, no vote), and a SafetyRules::new over it.
Init ==
    /\ safety_data = SafetyDataNew(1, 0, 0, 0, None)
    /\ waypoint = 0
    /\ validator_signer = None
    /\ epoch_state = None
    /\ export_consensus_key \in BOOLEAN
    /\ ret = NoCall
    /\ observed = None

\* A restart over a storage that did not keep the last vote.
NewWithoutLastVote ==
    /\ safety_data' = [safety_data EXCEPT !.last_vote = None]
    /\ validator_signer' = None
    /\ epoch_state' = None
    /\ ret' = Result("new", "Ok", None)
    /\ UNCHANGED <<waypoint, export_consensus_key, observed>>

\* SafetyRules::new over the storage of a previous instance: the process may
\* stop and start again at any time.
New ==
    /\ validator_signer' = None
    /\ epoch_state' = None
    /\ ret' = Result("new", "Ok", None)
    /\ UNCHANGED <<safety_data, waypoint, export_consensus_key, observed>>

consensus_state ==
    /\ ret = NoCall
    /\ \E fail \in ConsensusStateFails :
        /\ ret' = Result("consensus_state", guarded_consensus_state(fail).status, None)
        /\ UNCHANGED <<safety_data, waypoint, validator_signer, epoch_state,
                       export_consensus_key, observed>>

initialize ==
    /\ ret = NoCall
    /\ \E i \in InitializeInputs :
        \E out \in {guarded_initialize(i.proof, i.fail)} :
            /\ waypoint' = out.waypoint
            /\ safety_data' = out.safety_data
            /\ epoch_state' = out.epoch_state
            /\ validator_signer' = out.validator_signer
            /\ ret' = Result("initialize", out.status, None)
            /\ UNCHANGED <<export_consensus_key, observed>>

construct_and_sign_vote ==
    /\ ret = NoCall
    /\ \E i \in InputsNow(VoteInputs, VoteInputsOne, VoteInputsExported) :
        \E out \in {guarded_construct_and_sign_vote(i.proposal, i.fail)} :
            /\ safety_data' = out.safety_data
            /\ ret' = Result("construct_and_sign_vote", out.status, out.vote)
            /\ UNCHANGED <<waypoint, validator_signer, epoch_state,
                           export_consensus_key, observed>>

sign_proposal ==
    /\ ret = NoCall
    /\ \E i \in InputsNow(ProposalInputs, ProposalInputsOne, ProposalInputsExported) :
        \E out \in {guarded_sign_proposal(i.block_data, i.fail)} :
            /\ safety_data' = out.safety_data
            /\ ret' = Result("sign_proposal", out.status, None)
            /\ UNCHANGED <<waypoint, validator_signer, epoch_state,
                           export_consensus_key, observed>>

sign_timeout ==
    /\ ret = NoCall
    /\ \E i \in InputsNow(TimeoutInputs, TimeoutInputsOne, TimeoutInputsExported) :
        \E out \in {guarded_sign_timeout(i.timeout, i.fail)} :
            /\ safety_data' = out.safety_data
            /\ ret' = Result("sign_timeout", out.status, None)
            /\ UNCHANGED <<waypoint, validator_signer, epoch_state,
                           export_consensus_key, observed>>

sign_commit_vote ==
    /\ ret = NoCall
    /\ \E i \in InputsNow(CommitVoteInputs, CommitVoteInputsOne, CommitVoteInputsExported) :
        \E out \in {guarded_sign_commit_vote(i.fail)} :
            /\ safety_data' = out.safety_data
            /\ ret' = Result("sign_commit_vote", out.status, None)
            /\ UNCHANGED <<waypoint, validator_signer, epoch_state,
                           export_consensus_key, observed>>

\* The caller takes the result; the next call can start.
Return ==
    /\ ret # NoCall
    /\ ret' = NoCall
    /\ UNCHANGED <<safety_data, waypoint, validator_signer, epoch_state,
                   export_consensus_key, observed>>

\* The caller takes the Vote it was given and keeps it, to compare the later
\* ones with.
Observe ==
    /\ observed = None
    /\ ret.op = "construct_and_sign_vote"
    /\ ret.status = "Ok"
    /\ observed' = ret.vote
    /\ ret' = NoCall
    /\ UNCHANGED <<safety_data, waypoint, validator_signer, epoch_state,
                   export_consensus_key>>

Next ==
    \/ New
    \/ consensus_state
    \/ initialize
    \/ construct_and_sign_vote
    \/ sign_proposal
    \/ sign_timeout
    \/ sign_commit_vote
    \/ Return

Spec == Init /\ [][Next]_vars

\* The same engine, with a caller that keeps one of the votes returned.
NextObserved == Next \/ Observe

SpecObserved == Init /\ [][NextObserved]_vars

\* A QC whose parent block is not of a later round than its certified block.
OrderedQC(qc) == qc.parent_round <= qc.certified_round

\* construct_and_sign_vote called with proposals whose QC is ordered.
construct_and_sign_vote_ordered ==
    /\ ret = NoCall
    /\ \E i \in {j \in InputsNow(VoteInputs, VoteInputsOne, VoteInputsExported) :
                    OrderedQC(j.proposal)} :
        \E out \in {guarded_construct_and_sign_vote(i.proposal, i.fail)} :
            /\ safety_data' = out.safety_data
            /\ ret' = Result("construct_and_sign_vote", out.status, out.vote)
            /\ UNCHANGED <<waypoint, validator_signer, epoch_state,
                           export_consensus_key, observed>>

\* The engine when every proposal it is asked to vote on has an ordered QC.
NextOrdered ==
    \/ New
    \/ consensus_state
    \/ initialize
    \/ construct_and_sign_vote_ordered
    \/ sign_proposal
    \/ sign_timeout
    \/ sign_commit_vote
    \/ Return

SpecOrdered == Init /\ [][NextOrdered]_vars

\* sign_timeout returns a signature to a caller that keeps what it signed:
\* the epoch and round of the timeout, and the vote stored when it was made.
sign_timeout_observed ==
    /\ ret = NoCall
    /\ observed = None
    /\ \E i \in InputsNow(TimeoutInputs, TimeoutInputsOne, TimeoutInputsExported) :
        \E out \in {guarded_sign_timeout(i.timeout, i.fail)} :
            /\ out.status = "Ok"
            /\ safety_data' = out.safety_data
            /\ ret' = Result("sign_timeout", out.status, None)
            /\ observed' = Some([epoch |-> safety_data.epoch,
                                 round |-> i.timeout.round,
                                 last_vote |-> safety_data.last_vote])
            /\ UNCHANGED <<waypoint, validator_signer, epoch_state,
                           export_consensus_key>>

\* The same engine, with a caller that keeps one of the timeouts signed.
NextTimedOut == Next \/ sign_timeout_observed

SpecTimedOut == Init /\ [][NextTimedOut]_vars

\* ------------------------------------------------------------ properties
\* construct_and_sign_vote has just returned a Vote.
VoteReturned == ret.op = "construct_and_sign_vote" /\ ret.status = "Ok"

\* The calls whose external steps all succeed.
VoteCalls == VoteInputsOf({"none"})

\* The engine holds a signer and an epoch state.
Initialized == signer = "Ok" /\ epoch_state # None

\* C1: no double-voting.  A Vote returned by construct_and_sign_vote for the
\* epoch and round of a Vote returned by an earlier call is that same Vote,
\* and it is the stored last_vote, whatever block the later call proposed.
NoDoubleVoting ==
    (/\ VoteReturned
     /\ observed # None
     /\ Unwrap(ret.vote).epoch = Unwrap(observed).epoch
     /\ Unwrap(ret.vote).round = Unwrap(observed).round)
    => /\ ret.vote = observed
       /\ safety_data.last_vote = observed

\* A later call returned the Vote an earlier call had returned.
NoDoubleVotingWitness ==
    VoteReturned /\ observed # None /\ ret.vote = observed

\* A step keeps or raises last_voted_round within an epoch, and a new Vote
\* raises it to its round.
LastVotedRoundKept ==
    /\ safety_data'.epoch = safety_data.epoch
            => safety_data'.last_voted_round >= safety_data.last_voted_round
    /\ (/\ ret'.op = "construct_and_sign_vote"
        /\ ret'.status = "Ok"
        /\ ret'.vote # safety_data.last_vote)
            => /\ safety_data'.last_voted_round = Unwrap(ret'.vote).round
               /\ safety_data'.last_voted_round > safety_data.last_voted_round

\* A timeout signed for a round above last_voted_round raises it to its round.
TimeoutSetsLastVotedRound ==
    ret = NoCall =>
        \A i \in TimeoutInputs :
            \A out \in {guarded_sign_timeout(i.timeout, i.fail)} :
                (out.status = "Ok" /\ i.timeout.round > safety_data.last_voted_round)
                    => out.safety_data.last_voted_round = i.timeout.round

\* C2: monotone last_voted_round.  A step that keeps the stored epoch never
\* lowers last_voted_round; a construct_and_sign_vote that returns a new Vote
\* sets it to that Vote's round, strictly above the old value; a sign_timeout
\* that succeeds for a round above last_voted_round sets it to that round.
MonotoneLastVotedRound ==
    []TimeoutSetsLastVotedRound /\ [][LastVotedRoundKept]_vars

\* A timeout was signed for a round above the round of the last vote.
MonotoneLastVotedRoundWitness ==
    /\ ret.op = "sign_timeout"
    /\ ret.status = "Ok"
    /\ safety_data.last_vote # None
    /\ safety_data.last_voted_round > Unwrap(safety_data.last_vote).round

\* C3 as stated: construct_and_sign_vote returns an error and no Vote for
\* every proposal whose certified round is below the stored preferred_round.
PreferredRoundFloor ==
    ret = NoCall =>
        \A i \in VoteInputs :
            i.proposal.certified_round < safety_data.preferred_round =>
                \A out \in {guarded_construct_and_sign_vote(i.proposal, i.fail)} :
                    out.status # "Ok" /\ out.vote = None

\* C3, amended: for a proposal whose certified round is below the stored
\* preferred_round, construct_and_sign_vote creates and stores no vote.  It
\* returns an error and no Vote (IncorrectPreferredRound when the proposal gets
\* as far as the second voting rule), unless last_vote is a vote for the
\* proposed round: then it returns last_vote.
PreferredRoundFloorUnlessReplay ==
    ret = NoCall =>
        \A i \in VoteInputs :
            i.proposal.certified_round < safety_data.preferred_round =>
                \A out \in {guarded_construct_and_sign_vote(i.proposal, i.fail)} :
                    /\ out.safety_data = safety_data
                    /\ \/ out.status # "Ok" /\ out.vote = None
                       \/ /\ out.status = "Ok"
                          /\ out.vote # None
                          /\ out.vote = safety_data.last_vote
                          /\ Unwrap(out.vote).round = i.proposal.round
                    /\ (/\ Initialized
                        /\ i.fail = "none"
                        /\ i.proposal.epoch = "same"
                        /\ replay_last_vote(i.proposal.round, safety_data) = None)
                            => out.status = "IncorrectPreferredRound"

\* A proposal was rejected by the second voting rule.
PreferredRoundFloorWitness ==
    ret.op = "construct_and_sign_vote" /\ ret.status = "IncorrectPreferredRound"

\* C4: replay idempotence.  While the engine is initialized and last_vote is
\* stored, construct_and_sign_vote for a verified proposal of last_vote's
\* round (the proposal that made it among them) returns last_vote and leaves
\* every field of SafetyData as it was, so that the same holds for the next
\* call.
ReplayIdempotence ==
    (ret = NoCall /\ Initialized /\ safety_data.last_vote # None) =>
        \A i \in VoteCalls :
            (/\ i.proposal.epoch = "same"
             /\ i.proposal.round = Unwrap(safety_data.last_vote).round)
                => guarded_construct_and_sign_vote(i.proposal, i.fail) =
                        [status |-> "Ok", vote |-> safety_data.last_vote,
                         safety_data |-> safety_data]

\* The stored vote was returned again after a timeout of a later round.
ReplayIdempotenceWitness ==
    /\ VoteReturned
    /\ ret.vote = safety_data.last_vote
    /\ safety_data.last_voted_round > Unwrap(ret.vote).round

\* The failures of initialize that are not the storage's nor the proof's.
InitializeFailsAfterEpoch ==
    {"none", "author", "consensus_key_missing", "consensus_key", "sign"}

\* C5: epoch isolation.  initialize with a valid proof of an epoch above the
\* stored one (the storage answering) leaves exactly the fresh SafetyData of
\* the new epoch; the stored last_vote and every Vote returned are of the
\* stored epoch, and a Vote returned is never one that was returned in an
\* earlier epoch.
EpochIsolation ==
    /\ ret = NoCall =>
        \A i \in InitializeInputs :
            (i.proof.epoch > safety_data.epoch /\ i.fail \in InitializeFailsAfterEpoch)
                => guarded_initialize(i.proof, i.fail).safety_data =
                        SafetyDataNew(i.proof.epoch, 0, 0, 0, None)
    /\ safety_data.last_vote # None
            => Unwrap(safety_data.last_vote).epoch = safety_data.epoch
    /\ VoteReturned => Unwrap(ret.vote).epoch = safety_data.epoch
    /\ (VoteReturned /\ observed # None
            /\ Unwrap(observed).epoch < safety_data.epoch)
            => ret.vote # observed

\* A Vote was returned in an epoch after the one of an earlier Vote.
EpochIsolationWitness ==
    /\ VoteReturned
    /\ observed # None
    /\ Unwrap(observed).epoch < safety_data.epoch

\* What consensus_state returns when the storage answers.
Snapshot == Unwrap(guarded_consensus_state("none").state)

\* The engine is discarded and constructed again right after a successful
\* construct_and_sign_vote or sign_timeout.
RestartAfterSigning ==
    /\ ret.op \in {"construct_and_sign_vote", "sign_timeout"}
    /\ ret.status = "Ok"
    /\ ret'.op = "new"

\* C6 as stated: the snapshot (safety_data, waypoint, in_validator_set) after
\* the restart is the snapshot before it.
RestartKeepsSnapshot ==
    [][RestartAfterSigning => Snapshot' = Snapshot]_vars

\* C6, amended: the restart keeps safety_data and waypoint, the Vote just
\* returned is the stored last_vote after it, and in_validator_set, true before
\* the restart, is false after it (until initialize succeeds again).
RestartKeepsStorage ==
    [][RestartAfterSigning =>
        /\ Snapshot.in_validator_set
        /\ Snapshot' = [Snapshot EXCEPT !.in_validator_set = FALSE]
        /\ ret.op = "construct_and_sign_vote"
                => Snapshot'.safety_data.last_vote = ret.vote]_vars

\* The engine was constructed again over a storage that holds a vote.
RestartKeepsStorageWitness ==
    /\ ret.op = "new"
    /\ safety_data.last_vote # None
    /\ ~Snapshot.in_validator_set

\* B0 <- B1 <- B2 have consecutive rounds.
ThreeChain(proposed_block) ==
    /\ proposed_block.parent_round + 1 = proposed_block.certified_round
    /\ proposed_block.certified_round + 1 = proposed_block.round

\* C7: three-chain commit soundness.  construct_ledger_info builds a
\* LedgerInfo whose commit_info is the QC's parent block exactly when the
\* three rounds are consecutive; a LedgerInfo built in another case has the
\* empty commit_info; a new Vote carries the commit_info built for its
\* proposal.
ThreeChainCommitSoundness ==
    ret = NoCall =>
        \A i \in VoteCalls :
            \A ledger_info \in {construct_ledger_info(i.proposal)} :
                /\ (/\ ledger_info.status = "Ok"
                    /\ ledger_info.commit_info = BlockInfoOf(i.proposal.parent_round))
                        <=> ThreeChain(i.proposal)
                /\ (ledger_info.status = "Ok" /\ ~ThreeChain(i.proposal))
                        => ledger_info.commit_info = BlockInfoEmpty
                /\ \A out \in {guarded_construct_and_sign_vote(i.proposal, i.fail)} :
                        (out.status = "Ok" /\ out.vote # safety_data.last_vote)
                            => Unwrap(out.vote).commit_info = ledger_info.commit_info

\* A Vote that commits a block was returned.
ThreeChainCommitSoundnessWitness ==
    VoteReturned /\ ~Unwrap(ret.vote).commit_info.empty

\* construct_ledger_info adds 1 to a round equal to MaxRound: to round(B0), or
\* to round(B1) when round(B0) + 1 = round(B1).
AddsToMaxRound(proposed_block) ==
    \/ proposed_block.parent_round = MaxRound
    \/ /\ proposed_block.parent_round + 1 = proposed_block.certified_round
       /\ proposed_block.certified_round = MaxRound

\* The proposal passes both voting rules and is not a replay.
PassesVotingRules(proposal) ==
    /\ Initialized
    /\ proposal.epoch = "same"
    /\ replay_last_vote(proposal.round, safety_data) = None
    /\ proposal.certified_round >= safety_data.preferred_round
    /\ proposal.round > safety_data.last_voted_round

\* C8: round-arithmetic overflow.  construct_ledger_info fails with
\* IncorrectRound(MaxRound) whenever it adds 1 to a round equal to MaxRound,
\* and only then; construct_and_sign_vote then fails with IncorrectRound,
\* returns no Vote and stores nothing; a commit_info is built only for rounds
\* that are consecutive as integers.
RoundOverflowFails ==
    ret = NoCall =>
        \A i \in VoteCalls :
            \A ledger_info \in {construct_ledger_info(i.proposal)} :
                /\ AddsToMaxRound(i.proposal)
                        <=> ledger_info.status = "IncorrectRound"
                /\ AddsToMaxRound(i.proposal) => ledger_info.round = MaxRound
                /\ ~ledger_info.commit_info.empty => ThreeChain(i.proposal)
                /\ (AddsToMaxRound(i.proposal) /\ PassesVotingRules(i.proposal))
                        => guarded_construct_and_sign_vote(i.proposal, i.fail) =
                                [status |-> "IncorrectRound", vote |-> None,
                                 safety_data |-> safety_data]
                /\ AddsToMaxRound(i.proposal)
                        => guarded_construct_and_sign_vote(i.proposal, i.fail).safety_data
                                = safety_data

\* construct_and_sign_vote failed with IncorrectRound.
RoundOverflowFailsWitness ==
    /\ ret.op = "construct_and_sign_vote"
    /\ ret.status = "IncorrectRound"
    /\ ret.vote = None

\* C9: idempotent initialize at equal epoch.  initialize with a proof of the
\* stored epoch leaves every field of SafetyData as it was, whatever it
\* returns.
InitializeAtEqualEpoch ==
    ret = NoCall =>
        \A i \in InitializeInputs :
            i.proof.epoch = safety_data.epoch
                => guarded_initialize(i.proof, i.fail).safety_data = safety_data

\* initialize succeeded over SafetyData that holds a vote.
InitializeAtEqualEpochWitness ==
    /\ ret.op = "initialize"
    /\ ret.status = "Ok"
    /\ safety_data.last_vote # None
    /\ safety_data.last_voted_round > 0

\* The operations that sign.
SigningOps ==
    {"construct_and_sign_vote", "sign_proposal", "sign_timeout", "sign_commit_vote"}

\* Without a signer every signing call returns NotInitialized, no Vote and the
\* SafetyData it found.
NotInitializedForEveryInput ==
    (ret = NoCall /\ validator_signer = None) =>
        /\ \A i \in VoteInputs :
                guarded_construct_and_sign_vote(i.proposal, i.fail) =
                    [status |-> "NotInitialized", vote |-> None,
                     safety_data |-> safety_data]
        /\ \A i \in ProposalInputs :
                guarded_sign_proposal(i.block_data, i.fail) =
                    [status |-> "NotInitialized", safety_data |-> safety_data]
        /\ \A i \in TimeoutInputs :
                guarded_sign_timeout(i.timeout, i.fail) =
                    [status |-> "NotInitialized", safety_data |-> safety_data]
        /\ \A i \in CommitVoteInputs :
                guarded_sign_commit_vote(i.fail) =
                    [status |-> "NotInitialized", safety_data |-> safety_data]

\* A signing call made without a signer changes nothing in the storage, and
\* only initialize installs a signer or an epoch state.
OnlyInitializeInstalls ==
    /\ (validator_signer = None /\ ret'.op \in SigningOps)
            => /\ ret'.status = "NotInitialized"
               /\ ret'.vote = None
               /\ safety_data' = safety_data
               /\ waypoint' = waypoint
    /\ (validator_signer' # validator_signer /\ validator_signer' # None)
            => ret'.op = "initialize"
    /\ (epoch_state' # epoch_state /\ epoch_state' # None)
            => ret'.op = "initialize"

\* C10: while no signer is installed, construct_and_sign_vote, sign_proposal,
\* sign_timeout and sign_commit_vote return NotInitialized for every input,
\* return nothing signed and leave SafetyData and the waypoint unchanged; no
\* operation other than initialize installs a signer or an epoch state.
NotInitializedBeforeInitialize ==
    []NotInitializedForEveryInput /\ [][OnlyInitializeInstalls]_vars

\* A signing call was refused for want of a signer.
NotInitializedBeforeInitializeWitness ==
    /\ validator_signer = None
    /\ ret.op = "sign_timeout"
    /\ ret.status = "NotInitialized"

\* C11: when the QCs of the proposals voted on have parent round <= certified
\* round, the stored SafetyData has preferred_round <= one_chain_round in
\* every reachable state.
PreferredRoundBelowOneChainRound ==
    safety_data.preferred_round <= safety_data.one_chain_round

\* A vote has raised the stored preferred_round.
PreferredRoundBelowOneChainRoundWitness ==
    /\ VoteReturned
    /\ safety_data.preferred_round > 0
    /\ safety_data.preferred_round = safety_data.one_chain_round

\* The larger of two rounds.
MaxOf(a, b) == IF a >= b THEN a ELSE b

\* The timeout gets as far as the round checks of sign_timeout.
TimeoutReachesRounds(i) ==
    /\ signer = "Ok"
    /\ i.fail # "safety_data"
    /\ i.timeout.epoch = "same"

\* C12: sign_timeout returns a signature only for a timeout of the stored
\* epoch with round > preferred_round and round >= last_voted_round; a round
\* <= preferred_round fails with IncorrectPreferredRound, otherwise a round
\* < last_voted_round fails with IncorrectLastVotedRound, both without a
\* change of state; a success leaves last_voted_round = max(old, round) and
\* the other fields as they were, so that a timeout of the round already
\* voted on is signed with no change of state.
SignTimeoutRule ==
    ret = NoCall =>
        \A i \in TimeoutInputs :
            \A out \in {guarded_sign_timeout(i.timeout, i.fail)} :
                /\ out.status = "Ok" =>
                        /\ i.timeout.epoch = "same"
                        /\ i.timeout.round > safety_data.preferred_round
                        /\ i.timeout.round >= safety_data.last_voted_round
                        /\ out.safety_data =
                                [safety_data EXCEPT !.last_voted_round =
                                    MaxOf(safety_data.last_voted_round, i.timeout.round)]
                /\ (out.status = "Ok" /\ i.timeout.round = safety_data.last_voted_round)
                        => out.safety_data = safety_data
                /\ (TimeoutReachesRounds(i)
                        /\ i.timeout.round <= safety_data.preferred_round)
                        => out = [status |-> "IncorrectPreferredRound",
                                  safety_data |-> safety_data]
                /\ (TimeoutReachesRounds(i)
                        /\ i.timeout.round > safety_data.preferred_round
                        /\ i.timeout.round < safety_data.last_voted_round)
                        => out = [status |-> "IncorrectLastVotedRound",
                                  safety_data |-> safety_data]
                /\ (TimeoutReachesRounds(i)
                        /\ i.fail = "none"
                        /\ i.timeout.round > safety_data.preferred_round
                        /\ i.timeout.round >= safety_data.last_voted_round)
                        => out.status = "Ok"

\* A timeout was signed for the round of the stored vote.
SignTimeoutRuleWitness ==
    /\ ret.op = "sign_timeout"
    /\ ret.status = "Ok"
    /\ safety_data.last_vote # None
    /\ safety_data.last_voted_round = Unwrap(safety_data.last_vote).round

\* Every block with every outcome of the external steps of sign_proposal.
ProposalCalls == [block_data : BlockDatas, fail : ProposalFails]

\* sign_proposal signs only a block of the signer's author and of the stored
\* epoch, of a round above last_voted_round (and so above the round of the
\* stored vote), with a certified round >= preferred_round.
SignProposalRule ==
    /\ safety_data.last_vote # None
            => Unwrap(safety_data.last_vote).round <= safety_data.last_voted_round
    /\ ret = NoCall =>
        \A i \in ProposalCalls :
            guarded_sign_proposal(i.block_data, i.fail).status = "Ok" =>
                /\ signer = "Ok"
                /\ i.block_data.author = "self"
                /\ i.block_data.epoch = "same"
                /\ i.block_data.round > safety_data.last_voted_round
                /\ i.block_data.certified_round >= safety_data.preferred_round

\* Within an epoch the stored last_voted_round is never lowered, and a vote
\* or a timeout that was signed leaves it at or above the round signed.
SignedRoundStaysBelow ==
    /\ safety_data'.epoch = safety_data.epoch
            => safety_data'.last_voted_round >= safety_data.last_voted_round
    /\ (ret'.op = "construct_and_sign_vote" /\ ret'.status = "Ok")
            => Unwrap(ret'.vote).round <= safety_data'.last_voted_round

\* C13: sign_proposal returns a signature only if the block's author is the
\* signer's, its epoch the stored epoch, its round > the stored
\* last_voted_round and its QC's certified round >= the stored
\* preferred_round; last_voted_round stays at or above every round voted or
\* timed out in the epoch, so no proposal of such a round is signed later.
SignProposalOnlyAboveSignedRounds ==
    []SignProposalRule /\ [][SignedRoundStaysBelow]_vars

\* A proposal was signed by an engine that has voted in the epoch.
SignProposalOnlyAboveSignedRoundsWitness ==
    /\ ret.op = "sign_proposal"
    /\ ret.status = "Ok"
    /\ safety_data.last_vote # None

\* The proposal that carries a block: its epoch, round and QC.
ProposalOf(block_data) ==
    [epoch |-> block_data.epoch, round |-> block_data.round, id |-> "A",
     certified_round |-> block_data.certified_round,
     parent_round |-> block_data.parent_round]

\* sign_proposal returns the SafetyData it found, for every block and
\* outcome; a vote for a block it signed, made in the same state, passes the
\* voting rules again and, when it returns a Vote, stores the rounds of the
\* QC it observed.
SignProposalStoresNothing ==
    ret = NoCall =>
        \A i \in ProposalCalls :
            \A out \in {guarded_sign_proposal(i.block_data, i.fail)} :
                /\ out.safety_data = safety_data
                /\ out.status = "Ok" =>
                    \A vote \in {guarded_construct_and_sign_vote(
                                        ProposalOf(i.block_data), "none")} :
                        /\ vote.status \in {"Ok", "IncorrectRound"}
                        /\ vote.status = "Ok" =>
                            /\ vote.safety_data.preferred_round =
                                    MaxOf(safety_data.preferred_round,
                                          i.block_data.parent_round)
                            /\ vote.safety_data.one_chain_round =
                                    MaxOf(safety_data.one_chain_round,
                                          i.block_data.certified_round)

\* A sign_proposal step changes neither SafetyData nor the waypoint.
SignProposalStepStoresNothing ==
    ret'.op = "sign_proposal"
        => safety_data' = safety_data /\ waypoint' = waypoint

\* C14: sign_proposal never changes the stored SafetyData or the waypoint,
\* whatever the block and the outcome, and a vote for the same block made
\* afterwards applies the second voting rule and stores the preferred_round
\* and one_chain_round it observed.
SignProposalFrame ==
    []SignProposalStoresNothing /\ [][SignProposalStepStoresNothing]_vars

\* A proposal was signed and the storage holds the rounds it started with.
SignProposalFrameWitness ==
    /\ ret.op = "sign_proposal"
    /\ ret.status = "Ok"
    /\ safety_data.last_vote = None
    /\ safety_data.preferred_round = 0
    /\ safety_data.one_chain_round = 0

\* Every call of initialize: any proof, any failing step.
InitializeCalls == [proof : Proofs, fail : InitializeFails]

\* The steps of initialize that precede the comparison of the epochs.
InitializeFailsBeforeEpoch ==
    {"waypoint", "proof", "next_epoch_state", "epoch_boundary", "set_waypoint",
     "safety_data"}

\* A proof of an epoch below the stored one never succeeds and leaves
\* SafetyData, the epoch state and the signer as they were; it is answered
\* with NotInitialized when the proof verifies and the storage is read.
StaleInitializeRejected ==
    ret = NoCall =>
        \A i \in InitializeCalls :
            i.proof.epoch < safety_data.epoch =>
                \A out \in {guarded_initialize(i.proof, i.fail)} :
                    /\ out.status # "Ok"
                    /\ out.safety_data = safety_data
                    /\ out.epoch_state = epoch_state
                    /\ out.validator_signer = validator_signer
                    /\ i.fail \notin InitializeFailsBeforeEpoch
                            => out.status = "NotInitialized"

\* No step lowers the stored epoch.
EpochNeverDecreases == safety_data'.epoch >= safety_data.epoch

\* C15: stale initialize.  initialize with a valid proof whose epoch is lower
\* than the stored one fails with NotInitialized and leaves SafetyData, the
\* epoch state and the signer exactly as they were; the stored epoch never
\* decreases.
StaleInitialize ==
    []StaleInitializeRejected /\ [][EpochNeverDecreases]_vars

\* A proof of epoch 1 was rejected in a later epoch, with a signer installed.
StaleInitializeWitness ==
    /\ ret.op = "initialize"
    /\ ret.status = "NotInitialized"
    /\ safety_data.epoch > 1
    /\ validator_signer # None
    /\ epoch_state # None
    /\ Unwrap(epoch_state).epoch = safety_data.epoch

\* The outcomes of a failed key reconciliation: the author is not in the new
\* validator set, the key is not found or does not sign, or the storage
\* fails while the key is fetched.
FailsInKeyReconciliation(i, out) ==
    \/ out.status \in {"ValidatorNotInSet", "ValidatorKeyNotFound"}
    \/ out.status = "SecureStorageError" /\ i.fail = "consensus_key"

\* A failed key reconciliation leaves no signer, and without a signer
\* consensus_state reports in_validator_set = false and every signing call
\* returns NotInitialized.
FailedReconciliationClearsSigner ==
    /\ ret = NoCall =>
            \A i \in InitializeCalls :
                \A out \in {guarded_initialize(i.proof, i.fail)} :
                    FailsInKeyReconciliation(i, out)
                        => out.validator_signer = None
    /\ (ret = NoCall /\ validator_signer = None) =>
            ~Unwrap(guarded_consensus_state("none").state).in_validator_set
    /\ NotInitializedForEveryInput

\* A step that returns one of the errors of the key reconciliation leaves no
\* signer, and a signer appears only when initialize returns Ok.
SignerOnlyFromSuccessfulInitialize ==
    /\ (ret'.op = "initialize"
            /\ ret'.status \in {"ValidatorNotInSet", "ValidatorKeyNotFound"})
            => validator_signer' = None
    /\ (validator_signer' # validator_signer /\ validator_signer' # None)
            => ret'.op = "initialize" /\ ret'.status = "Ok"

\* C16: when initialize fails during key reconciliation (ValidatorNotInSet,
\* ValidatorKeyNotFound, or a storage error while the key is fetched) no
\* signer is installed afterwards, even if one was installed before;
\* consensus_state then reports in_validator_set = false and every signing
\* operation returns NotInitialized until a later initialize succeeds.
FailedReconciliationLeavesNoSigner ==
    []FailedReconciliationClearsSigner
        /\ [][SignerOnlyFromSuccessfulInitialize]_vars

\* The key reconciliation failed in a replica that had voted.
FailedReconciliationLeavesNoSignerWitness ==
    /\ ret.op = "initialize"
    /\ ret.status \in {"ValidatorNotInSet", "ValidatorKeyNotFound"}
    /\ validator_signer = None
    /\ epoch_state # None
    /\ safety_data.last_vote # None

\* initialize leaves the waypoint or replaces it with the waypoint of the
\* proof, and replaces it only by one of a strictly greater version.
InitializeAdvancesWaypoint ==
    ret = NoCall =>
        \A i \in InitializeCalls :
            \A out \in {guarded_initialize(i.proof, i.fail)} :
                \/ out.waypoint = waypoint
                \/ /\ out.waypoint = new_epoch_boundary(i.proof)
                   /\ out.waypoint > waypoint

\* No step lowers the waypoint, and only a step of initialize changes it.
WaypointOnlyAdvances ==
    /\ waypoint' >= waypoint
    /\ waypoint' # waypoint => ret'.op = "initialize"

\* C17: waypoint monotonicity.  The version of the stored waypoint never
\* decreases; initialize overwrites it only with a waypoint of strictly
\* greater version, and no other operation writes it.
WaypointMonotonicity ==
    []InitializeAdvancesWaypoint /\ [][WaypointOnlyAdvances]_vars

\* A proof older than the stored waypoint was given to initialize, and the
\* waypoint stayed.
WaypointMonotonicityWitness ==
    /\ ret.op = "initialize"
    /\ ret.status = "NotInitialized"
    /\ waypoint > 0

\* Every call of construct_and_sign_vote: any block, any failing step.
AllVoteCalls == [proposal : Proposals, fail : VoteFails]

\* C18: fresh-vote effect.  When construct_and_sign_vote returns a vote it
\* did not have stored for the round (block of round r, QC certifying round c
\* with parent round p), then c >= preferred_round and r > last_voted_round
\* held, and the SafetyData it stores is the old one with last_voted_round =
\* r, preferred_round = max(old, p), one_chain_round = max(old, c), last_vote
\* = the returned Vote and the same epoch.
FreshVoteEffect ==
    ret = NoCall =>
        \A i \in AllVoteCalls :
            \A out \in {guarded_construct_and_sign_vote(i.proposal, i.fail)} :
                (/\ out.status = "Ok"
                 /\ replay_last_vote(i.proposal.round, safety_data) = None)
                    => /\ i.proposal.certified_round >= safety_data.preferred_round
                       /\ i.proposal.round > safety_data.last_voted_round
                       /\ out.vote # None
                       /\ Unwrap(out.vote).round = i.proposal.round
                       /\ Unwrap(out.vote).id = i.proposal.id
                       /\ out.safety_data =
                            [epoch |-> safety_data.epoch,
                             last_voted_round |-> i.proposal.round,
                             preferred_round |->
                                 MaxOf(safety_data.preferred_round,
                                       i.proposal.parent_round),
                             one_chain_round |->
                                 MaxOf(safety_data.one_chain_round,
                                       i.proposal.certified_round),
                             last_vote |-> out.vote]

\* A vote was returned and stored, with the rounds of its QC.
FreshVoteEffectWitness ==
    /\ ret.op = "construct_and_sign_vote"
    /\ ret.status = "Ok"
    /\ ret.vote # None
    /\ ret.vote = safety_data.last_vote
    /\ Unwrap(ret.vote).round = safety_data.last_voted_round
    /\ safety_data.one_chain_round > safety_data.preferred_round

\* C19: whenever construct_and_sign_vote returns an error, for any block and
\* any failing step, it returns no Vote and the stored SafetyData is what it
\* was before the call: what the second voting rule observed is dropped when
\* a later step fails.
VoteErrorStoresNothing ==
    ret = NoCall =>
        \A i \in AllVoteCalls :
            \A out \in {guarded_construct_and_sign_vote(i.proposal, i.fail)} :
                out.status # "Ok"
                    => out.vote = None /\ out.safety_data = safety_data

\* A proposal of a round already voted in was refused after it passed the
\* second rule, and the stored rounds are those of the earlier vote.
VoteErrorStoresNothingWitness ==
    /\ ret.op = "construct_and_sign_vote"
    /\ ret.status = "IncorrectLastVotedRound"
    /\ ret.vote = None
    /\ safety_data.last_vote # None
    /\ safety_data.last_voted_round = MaxRound
    /\ safety_data.preferred_round = 0

\* C20: sign_timeout for a round above last_voted_round writes the new
\* last_voted_round before it signs.  A call that returns a signature leaves
\* the stored last_voted_round >= the round it signed; a call whose signing
\* step fails after the write returns the error and leaves last_voted_round
\* at the round of the timeout; no other failure of the call writes.
TimeoutWritesBeforeSigning ==
    ret = NoCall =>
        \A i \in TimeoutInputs :
            \A out \in {guarded_sign_timeout(i.timeout, i.fail)} :
                /\ out.status = "Ok"
                        => i.timeout.round <= out.safety_data.last_voted_round
                /\ (/\ TimeoutReachesRounds(i)
                    /\ i.fail = "sign"
                    /\ ~export_consensus_key
                    /\ i.timeout.round > safety_data.preferred_round
                    /\ i.timeout.round > safety_data.last_voted_round)
                        => out = [status |-> "SecureStorageError",
                                  safety_data |->
                                      [safety_data EXCEPT !.last_voted_round =
                                          i.timeout.round]]
                /\ (out.status # "Ok" /\ out.safety_data # safety_data)
                        => /\ i.fail = "sign"
                           /\ i.timeout.round > safety_data.last_voted_round
                           /\ out.safety_data.last_voted_round = i.timeout.round

\* A sign_timeout of a replica that signs through the storage failed there,
\* and last_voted_round stands at the last round without a vote stored.
TimeoutWritesBeforeSigningWitness ==
    /\ ret.op = "sign_timeout"
    /\ ret.status = "SecureStorageError"
    /\ ~export_consensus_key
    /\ safety_data.last_vote = None
    /\ safety_data.last_voted_round = MaxRound

\* After a vote of round last_voted_round above preferred_round, a timeout of
\* that round is signed and nothing is written.
VoteThenTimeoutSucceeds ==
    (/\ ret = NoCall
     /\ Initialized
     /\ safety_data.last_vote # None
     /\ Unwrap(safety_data.last_vote).round = safety_data.last_voted_round
     /\ safety_data.last_voted_round > safety_data.preferred_round)
        => guarded_sign_timeout(
                [epoch |-> "same", round |-> safety_data.last_voted_round], "none")
            = [status |-> "Ok", safety_data |-> safety_data]

\* C21: timeout-then-vote ordering.  Once sign_timeout has signed round r in
\* an epoch, a Vote returned by construct_and_sign_vote in that epoch is the
\* vote that was stored when the timeout was signed or a vote of a round
\* above r; a proposal of round r with no vote stored for that round is
\* refused, while a timeout of the round just voted in is signed.
TimeoutThenVoteOrdering ==
    /\ \A t \in observed :
            t.epoch = safety_data.epoch =>
                /\ VoteReturned =>
                        \/ ret.vote # None /\ ret.vote = t.last_vote
                        \/ Unwrap(ret.vote).round > t.round
                /\ (/\ ret = NoCall
                    /\ replay_last_vote(t.round, safety_data) = None) =>
                        \A i \in AllVoteCalls :
                            i.proposal.round = t.round =>
                                guarded_construct_and_sign_vote(
                                    i.proposal, i.fail).status # "Ok"
    /\ VoteThenTimeoutSucceeds

\* A vote of a later round was returned in the epoch of the timeout kept.
TimeoutThenVoteOrderingWitness ==
    /\ VoteReturned
    /\ observed # None
    /\ Unwrap(observed).epoch = safety_data.epoch
    /\ Unwrap(ret.vote).round > Unwrap(observed).round
    /\ Unwrap(observed).round > 0

\* initialize returned before the epoch state is installed: the proof is
\* stale, or a step up to the write of the new epoch's SafetyData failed.
ReturnsBeforeInstall(i) ==
    \/ i.proof.epoch < safety_data.epoch
    \/ i.fail \in InitializeFailsBeforeEpoch
            /\ (i.fail = "set_waypoint" => new_epoch_boundary(i.proof) > waypoint)
    \/ i.fail = "set_safety_data" /\ i.proof.epoch > safety_data.epoch

\* What initialize installs: nothing when it returns before line 338, and
\* otherwise the epoch state of the proof next to SafetyData of that epoch,
\* also when the key reconciliation fails.
InitializeInstallsWithSafetyData ==
    ret = NoCall =>
        \A i \in InitializeCalls :
            \A out \in {guarded_initialize(i.proof, i.fail)} :
                IF ReturnsBeforeInstall(i)
                THEN /\ out.status # "Ok"
                     /\ out.epoch_state = epoch_state
                     /\ out.safety_data = safety_data
                ELSE /\ out.epoch_state # None
                     /\ Unwrap(out.epoch_state).epoch = i.proof.epoch
                     /\ out.safety_data = start_new_epoch(i.proof.epoch, safety_data)
                     /\ out.safety_data.epoch = i.proof.epoch

\* C22: in every reachable state, an installed epoch state has the epoch of
\* the stored SafetyData: initialize writes the SafetyData of the new epoch
\* before it installs the epoch state, installs nothing when the proof is
\* stale or a storage write fails, and keeps the new SafetyData and epoch
\* state when the key reconciliation fails.
EpochStateMatchesSafetyData ==
    /\ epoch_state # None => Unwrap(epoch_state).epoch = safety_data.epoch
    /\ InitializeInstallsWithSafetyData

\* The key reconciliation failed in a new epoch, whose SafetyData and epoch
\* state are in place.
EpochStateMatchesSafetyDataWitness ==
    /\ ret.op = "initialize"
    /\ ret.status = "ValidatorNotInSet"
    /\ validator_signer = None
    /\ epoch_state # None
    /\ Unwrap(epoch_state).epoch = MaxEpoch
    /\ safety_data = SafetyDataNew(MaxEpoch, 0, 0, 0, None)

\* C23: in every reachable state, also after initialize calls that failed at
\* any step, an installed signer comes with an installed epoch state whose
\* validator set holds the signer's public key for this author; so
\* in_validator_set = true in the answer of consensus_state implies
\* membership in the installed validator set.
SignerMatchesEpochState ==
    /\ validator_signer # None =>
            /\ epoch_state # None
            /\ validator_signer = Some(Unwrap(epoch_state).key)
    /\ ret = NoCall =>
            \A out \in {guarded_consensus_state("none")} :
                Unwrap(out.state).in_validator_set =>
                    /\ epoch_state # None
                    /\ Unwrap(epoch_state).key # "absent"

====
